---------------------------- MODULE Spec2Model ----------------------------
(***************************************************************************)
(* The Vault token manager of the task runner (vault_hook.go): the Prerun  *)
(* gate, the Poststop cancellation, the background run loop with its       *)
(* derivation retry loop, the token file, the renewal stream of the Vault  *)
(* client and the tokenFuture that gates task start-up.                    *)
(*                                                                         *)
(* Tokens are numbers: 0 is the empty string "", 1..MaxToken are the       *)
(* non-empty tokens the Vault server can hand out.  Every call the hook    *)
(* makes on a collaborator (Vault client, lifecycle, updater) is recorded  *)
(* in a log so that the order and the arguments of the calls can be        *)
(* stated.                                                                 *)
(*                                                                         *)
(* Three further specifications share the state: BackoffSpec, one          *)
(* derivation that keeps meeting recoverable errors, with its delays in    *)
(* wrapping int64 arithmetic; FutureSpec, the tokenFuture on its own under *)
(* arbitrary calls; ScriptSpec, the Consul script check, whose loop is taken *)
(* from its description and whose executors and heartbeater are those of its *)
(* tests.                                                                  *)
(***************************************************************************)
EXTENDS Integers, Sequences, FiniteSets, TLC

\* ------------------------------------------------------------- bounds
\* Non-empty tokens the server can issue.
MaxToken == 2
\* DeriveToken calls made in one behaviour (caps the number of rotations and
\* of recoverable errors).
MaxDerives == 2
\* Prerun invocations made in one behaviour.
MaxPrerunCalls == 2
\* Attempts of one derivation against a server that keeps failing.
MaxAttempts == 33
\* Passes the script check makes on its interval timer.
MaxRuns == 1
\* Channels handed out by Wait to the callers of a future on its own.
MaxHandles == 3

EmptyToken == 0
FirstToken == 1
NoFile == -1
NoStream == -1
NoChan == 0

Tokens == 0..MaxToken

\* Tokens are opaque: DeriveToken yields the empty string, a token issued
\* before or the next token not issued so far.
Derivable(n) == {t \in Tokens : t <= n + 1}
ChangeModes == {"signal", "restart", "noop", "other"}

VARIABLES
    firstRun,       \* h.firstRun
    hctxDone,       \* h.ctx has been cancelled (h.cancel called)
    future,         \* h.future: [set, token, waiting]
    closed,         \* the channels handed out by Wait that have been closed
    disk,           \* content of the token file, NoFile when it does not exist
    changeMode,     \* h.vaultStanza.ChangeMode
    signalParses,   \* whether signals.Parse(ChangeSignal) succeeds
    prerunPc,       \* position of the Prerun invocation in progress
    prerunCalls,    \* number of Prerun invocations so far
    callCtxDone,    \* the ctx passed to the Prerun invocation in progress is done
    gateCh,         \* the channel Prerun got from h.future.Wait()
    prerunRet,      \* how the last Prerun invocation returned
    runPc,          \* position of the run goroutine
    token,          \* run's local variable token
    updatedToken,   \* run's local variable updatedToken
    attempts,       \* deriveVaultToken's local variable attempts
    backoff,        \* deriveVaultToken's local variable backoff, an int64
    runExit,        \* the return statement by which run ended
    passStops,      \* StopRenewToken calls made in the current loop pass
    renewing,       \* the token the client is renewing, NoStream when none
    renewErr,       \* an error is waiting on renewCh
    issued,         \* the highest token the server has issued
    recovered,      \* the token run was launched with
    derives,        \* number of DeriveToken calls made
    clientLog,      \* calls on h.client, in order
    lifeLog,        \* calls on h.lifecycle, in order
    updaterLog,     \* calls on h.updater, in order
    reactLog,       \* tokens for which the change mode was applied
    renewFails,     \* renewal-stream failures run has observed
    callers,        \* what the callers of a token future hold of it
    script          \* the script check, its signals and its heartbeater

vars == <<firstRun, hctxDone, future, closed, disk, changeMode, signalParses,
          prerunPc, prerunCalls, callCtxDone, gateCh, prerunRet,
          runPc, token, updatedToken, attempts, backoff, runExit, passStops,
          renewing, renewErr, issued, recovered, derives, clientLog, lifeLog, updaterLog,
          reactLog, renewFails, callers, script>>

hookVars   == <<firstRun, hctxDone, changeMode, signalParses>>
prerunVars == <<prerunPc, prerunCalls, callCtxDone, gateCh, prerunRet>>
runVars    == <<runPc, token, updatedToken, attempts, backoff, runExit, passStops>>
ghostVars  == <<issued, recovered, derives, clientLog, lifeLog, updaterLog, reactLog, renewFails>>

\* What the token manager never touches: the state of the other components.
otherVars  == <<callers, script>>

\* The channels Wait has handed out, with what was seen of each.
handles == callers.handles
\* The token of the last Set, empty since a Clear.
lastSet == callers.lastSet
\* What the last Get returned.
got == callers.got

\* Position of the script check's loop.
scPc == script.pc
\* The shutdown channel given to the script check is closed.
scShutdown == script.shutdown
\* The handle's cancel() has been called.
scCancelled == script.cancelled
\* What the last Exec returned.
scResult == script.result
\* The UpdateTTL calls received by the heartbeater, in order.
scLog == script.log

\* The state of the token manager.
managerVars == <<hookVars, prerunVars, runVars, ghostVars, future, closed, disk,
                 renewing, renewErr>>

\* ------------------------------------------------------ time.Duration
\* A time.Duration is an int64 counting nanoseconds.  It is kept as its
\* two's-complement bytes, least significant first, so that shifts and
\* products wrap as the machine's do.
Bytes == 8
Byte == 256
WordBits == Bytes * 8

RECURSIVE NatByte(_, _)
NatByte(n, i) == IF i = 1 THEN n % Byte ELSE NatByte(n \div Byte, i - 1)

\* The int64 of a small natural number.
FromNat(n) == [i \in 1..Bytes |-> NatByte(n, i)]
Zero64 == FromNat(0)
One64 == FromNat(1)

RECURSIVE Pow2(_)
Pow2(r) == IF r = 0 THEN 1 ELSE 2 * Pow2(r - 1)

\* x << k on an int64: bits shifted past bit 63 are lost, and a count of
\* 64 or more leaves zero.
ByteAt(w, i) == IF i \in 1..Bytes THEN w[i] ELSE 0
Shl64(w, k) ==
    IF k >= WordBits THEN Zero64
    ELSE LET q == k \div 8
             r == k % 8
         IN [i \in 1..Bytes |->
                ((ByteAt(w, i - q) * Pow2(r)) % Byte)
                + ((ByteAt(w, i - q - 1) * Pow2(r)) \div Byte)]

\* a * b on int64: the low 64 bits of the product.
RECURSIVE Column(_, _, _, _)
Column(a, b, i, j) ==
    IF j > i THEN 0 ELSE a[j] * b[i + 1 - j] + Column(a, b, i, j + 1)
RECURSIVE ColumnSum(_, _, _)
ColumnSum(a, b, i) ==
    IF i = 0 THEN 0
    ELSE Column(a, b, i, 1) + (ColumnSum(a, b, i - 1) \div Byte)
Mul64(a, b) == [i \in 1..Bytes |-> ColumnSum(a, b, i) % Byte]

\* a > b on int64 (signed).
Negative(w) == w[Bytes] >= Byte \div 2
RECURSIVE AboveFrom(_, _, _)
AboveFrom(a, b, i) ==
    IF i = 0 THEN FALSE
    ELSE IF a[i] # b[i] THEN a[i] > b[i]
    ELSE AboveFrom(a, b, i - 1)
Gt64(a, b) ==
    IF Negative(a) # Negative(b) THEN Negative(b)
    ELSE AboveFrom(a, b, Bytes)

Second == FromNat(1000000000)
Minute == Mul64(FromNat(60), Second)
vaultBackoffBaseline == Mul64(FromNat(5), Second)
vaultBackoffLimit == Mul64(FromNat(3), Minute)

\* A delay that is not compared with vaultBackoffLimit.
BackoffNoLimit(n) == Mul64(Shl64(One64, 2 * n), vaultBackoffBaseline)

\* Lines 305-308: the delay before retry number n + 1 of one derivation,
\* n being the value of attempts.
Backoff(n) ==
    LET b == Mul64(Shl64(One64, 2 * n), vaultBackoffBaseline)
    IN IF Gt64(b, vaultBackoffLimit) THEN vaultBackoffLimit ELSE b

\* ------------------------------------------------------ Exec results
\* error values: nil and an error with its text.
NoErr == [isNil |-> TRUE, text |-> "<nil>"]
ErrorsNew(text) == [isNil |-> FALSE, text |-> text]
Error(err) == err.text

\* An Exec result: stdout, exit code, err.
ExecResult(stdout, code, err) == [stdout |-> stdout, code |-> code, err |-> err]
NoResult == ExecResult(<<>>, 0, NoErr)

\* newScriptCheck(...): a check that has not been run, with a shutdown
\* channel that is open and a heartbeater that has received nothing.
newScriptCheck ==
    [pc |-> "new", shutdown |-> FALSE, cancelled |-> FALSE, result |-> NoResult,
     log |-> <<>>]

\* ------------------------------------------------------ tokenFuture
newTokenFuture == [set |-> FALSE, token |-> EmptyToken, waiting |-> <<>>]

\* No call has been made on the future.
NoCalls == [handles |-> <<>>, lastSet |-> EmptyToken, got |-> EmptyToken]

\* Wait: a fresh channel c; closed at once when the future is set, queued
\* otherwise.  Gives the new future and the new set of closed channels.
FutureWait(f, cl, c) ==
    IF f.set
    THEN [future |-> f, closed |-> cl \cup {c}]
    ELSE [future |-> [f EXCEPT !.waiting = Append(@, c)], closed |-> cl]

\* Set: stores the token, closes every waiting channel, empties the queue.
FutureSet(f, cl, tok) ==
    [future |-> [set |-> TRUE, token |-> tok, waiting |-> <<>>],
     closed |-> cl \cup {f.waiting[i] : i \in 1..Len(f.waiting)}]

\* A Clear that leaves the future as it is.
FutureClearKeeps(f) == f

\* Clear: empties the token and the flag, leaves the queue alone.
FutureClear(f) == [f EXCEPT !.token = EmptyToken, !.set = FALSE]

FutureGet(f) == f.token

\* The value of prerunRet while no Prerun invocation has returned.
NoReturn == [call |-> 0, how |-> "none", ctxDone |-> FALSE, tok |-> EmptyToken,
             updated |-> FALSE]

\* ------------------------------------------------------------ Init
Init ==
    /\ firstRun = TRUE
    /\ hctxDone = FALSE
    /\ future = newTokenFuture
    /\ closed = {}
    /\ disk \in {NoFile, EmptyToken, FirstToken}
    /\ changeMode \in ChangeModes
    /\ signalParses \in (IF changeMode = "signal" THEN BOOLEAN ELSE {TRUE})
    /\ prerunPc = "idle"
    /\ prerunCalls = 0
    /\ callCtxDone = FALSE
    /\ gateCh = NoChan
    /\ prerunRet = NoReturn
    /\ runPc = "idle"
    /\ token = EmptyToken
    /\ updatedToken = FALSE
    /\ attempts = 0
    /\ backoff = Zero64
    /\ runExit = "none"
    /\ passStops = 0
    /\ renewing = NoStream
    /\ renewErr = FALSE
    /\ issued = IF disk = FirstToken THEN FirstToken ELSE EmptyToken
    /\ recovered = EmptyToken
    /\ derives = 0
    /\ clientLog = <<>>
    /\ lifeLog = <<>>
    /\ updaterLog = <<>>
    /\ reactLog = <<>>
    /\ renewFails = 0
    /\ callers = NoCalls
    /\ script = newScriptCheck

\* ------------------------------------------------------ collaborators
ClientCall(op, tok, ok) == [op |-> op, tok |-> tok, ok |-> ok]
LifeCall(op, failure, tok) == [op |-> op, failure |-> failure, tok |-> tok]
UpdaterCall(by, tok) == [by |-> by, tok |-> tok]

\* A Kill that does not mark the task as failed.
KillNoFailure(tok) == LifeCall("kill", FALSE, tok)

\* h.lifecycle.Kill("vault", reason, true): every Kill of the hook passes
\* fail = true.
Kill(tok) == LifeCall("kill", TRUE, tok)

\* A stopRenewal that reads the future after it has been cleared.
StopRenewalCleared == FutureGet(FutureClear(future))

\* The token stopRenewal hands to StopRenewToken: h.future.Get().
StopRenewalToken == FutureGet(future)

\* stopRenewal(): StopRenewToken(h.future.Get()); an error is only logged.
\* The client ends the stream of the token it is given.
stopRenewal ==
    /\ clientLog' = Append(clientLog, ClientCall("stop", StopRenewalToken, TRUE))
    /\ renewing' = IF renewing = StopRenewalToken THEN NoStream ELSE renewing
    /\ renewErr' = FALSE

\* A renewal failure that marks the change mode as due whatever the mode.
RotationPendingAlways == TRUE

\* A renewal failure that forgets to mark the change mode as due.
RotationPendingLost == updatedToken

\* The value line 270-272 leaves in updatedToken after a renewal failure.
RotationPending == IF changeMode # "noop" THEN TRUE ELSE updatedToken

\* ------------------------------------------------------------ Prerun
\* Whether the updater has been handed a non-empty token in the calls upd.
Updated(upd) == \E i \in 1..Len(upd) : upd[i].tok # EmptyToken

\* A return of Prerun: the invocation is recorded with its number, the way it
\* returned, the state of its ctx, the token it handed to the updater and
\* whether the updater has been handed a non-empty token by then.
Returned(n, how, ctxDone, tok, upd) ==
    [call |-> n, how |-> how, ctxDone |-> ctxDone, tok |-> tok,
     updated |-> Updated(upd)]

PrerunReturn(how, tok, upd) ==
    /\ prerunPc' = "idle"
    /\ prerunRet' = Returned(prerunCalls, how, callCtxDone, tok, upd)

\* What ioutil.ReadFile gives for the token file: the recovered token.
RecoveredToken == IF disk = NoFile THEN EmptyToken ELSE disk

\* Lines 126-130: a second or later invocation returns nil at once.
PrerunNotFirst ==
    /\ prerunPc = "idle"
    /\ prerunCalls < MaxPrerunCalls
    /\ ~firstRun
    /\ prerunCalls' = prerunCalls + 1
    /\ firstRun' = FALSE
    /\ callCtxDone' = FALSE
    /\ prerunPc' = "idle"
    /\ prerunRet' = Returned(prerunCalls', "notfirst", FALSE, EmptyToken, updaterLog)
    /\ UNCHANGED <<otherVars, hctxDone, changeMode, signalParses, future, closed, disk,
                   gateCh, runVars, renewing, renewErr, ghostVars>>

\* Lines 126-140: the first invocation, ReadFile failing with an error other
\* than "does not exist": Prerun returns the error, run is not launched.
PrerunReadError ==
    /\ prerunPc = "idle"
    /\ prerunCalls < MaxPrerunCalls
    /\ firstRun
    /\ prerunCalls' = prerunCalls + 1
    /\ firstRun' = FALSE
    /\ callCtxDone' = FALSE
    /\ prerunPc' = "idle"
    /\ prerunRet' = Returned(prerunCalls', "readerr", FALSE, EmptyToken, updaterLog)
    /\ UNCHANGED <<otherVars, hctxDone, changeMode, signalParses, future, closed, disk,
                   gateCh, runVars, renewing, renewErr, ghostVars>>

\* Lines 126-149: the first invocation recovers the token (or none) and
\* launches the token manager with it.
PrerunLaunch ==
    /\ prerunPc = "idle"
    /\ prerunCalls < MaxPrerunCalls
    /\ firstRun
    /\ prerunCalls' = prerunCalls + 1
    /\ firstRun' = FALSE
    /\ callCtxDone' = FALSE
    /\ prerunPc' = "launched"
    /\ runPc' = "top"
    /\ token' = RecoveredToken
    /\ recovered' = RecoveredToken
    /\ UNCHANGED <<otherVars, hctxDone, changeMode, signalParses, future, closed, disk,
                   gateCh, prerunRet, updatedToken, attempts, backoff, runExit,
                   passStops, renewing, renewErr, issued, derives, clientLog,
                   lifeLog, updaterLog, reactLog, renewFails>>

\* Line 153: h.future.Wait() is evaluated; run may already have taken steps.
PrerunWait ==
    /\ prerunPc = "launched"
    /\ LET c == Cardinality(closed) + Len(future.waiting) + 1
           w == FutureWait(future, closed, c)
       IN /\ gateCh' = c
          /\ future' = w.future
          /\ closed' = w.closed
    /\ prerunPc' = "select"
    /\ UNCHANGED <<otherVars, hookVars, disk, prerunCalls, callCtxDone, prerunRet,
                   runVars, renewing, renewErr, ghostVars>>

\* Lines 152-153: the select takes the future's channel.
PrerunGateOpens ==
    /\ prerunPc = "select"
    /\ gateCh \in closed
    /\ prerunPc' = "get"
    /\ UNCHANGED <<otherVars, hookVars, future, closed, disk, prerunCalls, callCtxDone,
                   gateCh, prerunRet, runVars, renewing, renewErr, ghostVars>>

\* Lines 154-155: the select takes ctx.Done(): return nil without a token.
PrerunCtxDone ==
    /\ prerunPc = "select"
    /\ callCtxDone
    /\ PrerunReturn("cancelled", EmptyToken, updaterLog)
    /\ UNCHANGED <<otherVars, hookVars, future, closed, disk, prerunCalls, callCtxDone,
                   gateCh, runVars, renewing, renewErr, ghostVars>>

\* The token Prerun hands to the updater: h.future.Get() at that moment.
GateToken == FutureGet(future)

\* Lines 158-159: h.updater.updatedVaultToken(h.future.Get()); return nil.
PrerunUpdate ==
    /\ prerunPc = "get"
    /\ updaterLog' = Append(updaterLog, UpdaterCall("prerun", GateToken))
    /\ PrerunReturn("updated", GateToken, updaterLog')
    /\ UNCHANGED <<otherVars, issued, recovered, hookVars, future, closed, disk, prerunCalls, callCtxDone,
                   gateCh, runVars, renewing, renewErr, derives, clientLog,
                   lifeLog, reactLog, renewFails>>

\* The caller cancels the ctx it passed to the Prerun invocation in progress.
CallerCancel ==
    /\ prerunPc # "idle"
    /\ ~callCtxDone
    /\ callCtxDone' = TRUE
    /\ UNCHANGED <<otherVars, hookVars, future, closed, disk, prerunPc, prerunCalls,
                   gateCh, prerunRet, runVars, renewing, renewErr, ghostVars>>

\* ---------------------------------------------------------- Poststop
\* Lines 162-166: h.cancel().
Poststop ==
    /\ ~hctxDone
    /\ hctxDone' = TRUE
    /\ UNCHANGED <<otherVars, firstRun, changeMode, signalParses, future, closed, disk,
                   prerunVars, runVars, renewing, renewErr, ghostVars>>

\* ----------------------------------------------------------------- run
\* A return of run.
RunReturn(why) ==
    /\ runPc' = "exited"
    /\ runExit' = why

\* Lines 186-190: the top of the loop with h.ctx done: stopRenewal, return.
RunTopCancelled ==
    /\ runPc = "top"
    /\ hctxDone
    /\ stopRenewal
    /\ passStops' = 1
    /\ RunReturn("cancelled")
    /\ UNCHANGED <<otherVars, issued, recovered, hookVars, future, closed, disk, prerunVars, token,
                   updatedToken, attempts, backoff, derives, lifeLog, updaterLog,
                   reactLog, renewFails>>

\* Lines 191-199 and 283: the top of the loop otherwise: the future is
\* cleared, then the token decides between deriving and renewing.
RunTopClear ==
    /\ runPc = "top"
    /\ ~hctxDone
    /\ future' = FutureClear(future)
    /\ passStops' = 0
    /\ attempts' = 0
    /\ backoff' = Zero64
    /\ runPc' = IF token = EmptyToken THEN "derive" ELSE "renew"
    /\ UNCHANGED <<otherVars, hookVars, closed, disk, prerunVars, token, updatedToken,
                   runExit, renewing, renewErr, ghostVars>>

\* Lines 285-288 and 202-206: DeriveToken succeeds; the token of the task is
\* taken from the map (the empty string when the map has no entry for it).
RunDeriveOk ==
    /\ runPc = "derive"
    /\ \E tok \in Derivable(issued) :
          /\ token' = tok
          /\ issued' = IF tok > issued THEN tok ELSE issued
          /\ clientLog' = Append(clientLog, ClientCall("derive", tok, TRUE))
    /\ derives' = derives + 1
    /\ runPc' = "write"
    /\ UNCHANGED <<otherVars, recovered, hookVars, future, closed, disk, prerunVars, updatedToken,
                   attempts, backoff, runExit, passStops, renewing, renewErr, lifeLog,
                   updaterLog, reactLog, renewFails>>

\* The fatal outcomes of DeriveToken, lines 291-302 and 203-206: Kill, then
\* deriveVaultToken returns exit = true and run returns.
DeriveFatal(why) ==
    /\ runPc = "derive"
    /\ derives' = derives + 1
    /\ clientLog' = Append(clientLog, ClientCall("derive", EmptyToken, FALSE))
    /\ lifeLog' = Append(lifeLog, Kill(EmptyToken))
    /\ token' = EmptyToken
    /\ RunReturn(why)
    /\ UNCHANGED <<otherVars, issued, recovered, hookVars, future, closed, disk, prerunVars, updatedToken,
                   attempts, backoff, passStops, renewing, renewErr, updaterLog,
                   reactLog, renewFails>>

\* Lines 291-295: a server-side error.
RunDeriveServerSide == DeriveFatal("server")

\* Lines 298-302: an error that is not recoverable.
RunDeriveNonRecoverable == DeriveFatal("nonrecoverable")

\* Lines 304-311: a recoverable error: the attempt is counted and the
\* back-off wait begins.
DeriveRecoverable ==
    /\ runPc = "derive"
    /\ derives' = derives + 1
    /\ clientLog' = Append(clientLog, ClientCall("derive", EmptyToken, FALSE))
    /\ backoff' = Backoff(attempts)
    /\ attempts' = attempts + 1
    /\ runPc' = "backoff"
    /\ UNCHANGED <<otherVars, issued, recovered, hookVars, future, closed, disk, prerunVars, token,
                   updatedToken, runExit, passStops, renewing, renewErr,
                   lifeLog, updaterLog, reactLog, renewFails>>

\* The recoverable error of a server that is called MaxDerives times at most.
RunDeriveRecoverable ==
    /\ derives + 1 < MaxDerives
    /\ DeriveRecoverable

\* The recoverable error of a server that keeps failing: one derivation
\* makes up to MaxAttempts attempts.
RunDeriveRetry ==
    /\ attempts < MaxAttempts
    /\ DeriveRecoverable

\* A back-off select whose timer can win whatever the state of h.ctx.
BackoffTimerAlways == TRUE

\* Whether the timer of the back-off select can win.  The wait lasts at
\* least vaultBackoffBaseline; a select that finds h.ctx done, or that is
\* woken by h.ctx being cancelled, takes that case.
BackoffTimerWins == ~hctxDone

\* Lines 314-318, time.After(backoff) fires: DeriveToken is tried again.
RunBackoffTimer ==
    /\ runPc = "backoff"
    /\ BackoffTimerWins
    /\ runPc' = "derive"
    /\ UNCHANGED <<otherVars, hookVars, future, closed, disk, prerunVars, token,
                   updatedToken, attempts, backoff, runExit, passStops, renewing,
                   renewErr, ghostVars>>

\* Lines 314-316 and 203-206: h.ctx is done during the wait: exit = true.
RunBackoffCancelled ==
    /\ runPc = "backoff"
    /\ hctxDone
    /\ token' = EmptyToken
    /\ RunReturn("backoffcancel")
    /\ UNCHANGED <<otherVars, hookVars, future, closed, disk, prerunVars, updatedToken,
                   attempts, backoff, passStops, renewing, renewErr, ghostVars>>

\* Lines 209 and 323-329: writeToken succeeds: the file holds the token.
RunWriteOk ==
    /\ runPc = "write"
    /\ disk' = token
    /\ runPc' = "renew"
    /\ UNCHANGED <<otherVars, hookVars, future, closed, prerunVars, token, updatedToken,
                   attempts, backoff, runExit, passStops, renewing, renewErr, ghostVars>>

\* Lines 209-214: writeToken fails: Kill and return.  WriteFile truncates
\* the file when it opens it, so a failed write leaves the old content or an
\* empty file.
RunWriteFails ==
    /\ runPc = "write"
    /\ disk' \in {disk, EmptyToken}
    /\ lifeLog' = Append(lifeLog, Kill(token))
    /\ RunReturn("write")
    /\ UNCHANGED <<otherVars, issued, recovered, hookVars, future, closed, prerunVars, token, updatedToken,
                   attempts, backoff, passStops, renewing, renewErr, derives, clientLog,
                   updaterLog, reactLog, renewFails>>

\* Line 218, RenewToken returns a channel: the client renews the token.
RunRenewStarts ==
    /\ runPc = "renew"
    /\ clientLog' = Append(clientLog, ClientCall("renew", token, TRUE))
    /\ renewing' = token
    /\ renewErr' = FALSE
    /\ runPc' = "publish"
    /\ UNCHANGED <<otherVars, issued, recovered, hookVars, future, closed, disk, prerunVars, token,
                   updatedToken, attempts, backoff, runExit, passStops, derives,
                   lifeLog, updaterLog, reactLog, renewFails>>

\* A failed start of the renewal after which the token is kept and published.
RunRenewStartFailsKeeps ==
    /\ runPc = "renew"
    /\ derives < MaxDerives
    /\ clientLog' = Append(clientLog, ClientCall("renew", token, FALSE))
    /\ runPc' = "publish"
    /\ UNCHANGED <<otherVars, issued, recovered, hookVars, future, closed, disk, prerunVars,
                   token, updatedToken, attempts, backoff, runExit, passStops, renewing,
                   renewErr, derives, lifeLog, updaterLog, reactLog, renewFails>>

\* Lines 218-225, RenewToken returns an error: the token is dropped and the
\* loop starts over.
RunRenewStartFails ==
    /\ runPc = "renew"
    /\ derives < MaxDerives
    /\ clientLog' = Append(clientLog, ClientCall("renew", token, FALSE))
    /\ token' = EmptyToken
    /\ runPc' = "top"
    /\ UNCHANGED <<otherVars, issued, recovered, hookVars, future, closed, disk, prerunVars, updatedToken,
                   attempts, backoff, runExit, passStops, renewing, renewErr, derives,
                   lifeLog, updaterLog, reactLog, renewFails>>

\* A publication that applies the change mode without testing updatedToken.
RunPublishReacts ==
    /\ runPc = "publish"
    /\ LET s == FutureSet(future, closed, token)
       IN /\ future' = s.future
          /\ closed' = s.closed
    /\ runPc' = "react"
    /\ UNCHANGED <<otherVars, hookVars, disk, prerunVars, token, updatedToken, attempts, backoff,
                   runExit, passStops, renewing, renewErr, ghostVars>>

\* Lines 228-230: h.future.Set(token), then the test of updatedToken.
RunPublish ==
    /\ runPc = "publish"
    /\ LET s == FutureSet(future, closed, token)
       IN /\ future' = s.future
          /\ closed' = s.closed
    /\ runPc' = IF updatedToken THEN "react" ELSE "watch"
    /\ UNCHANGED <<otherVars, hookVars, disk, prerunVars, token, updatedToken, attempts, backoff,
                   runExit, passStops, renewing, renewErr, ghostVars>>

\* Lines 255-258, the end of the change-mode block: updatedToken is reset and
\* the updater is told the token.
ReactDone ==
    /\ updatedToken' = FALSE
    /\ updaterLog' = Append(updaterLog, UpdaterCall("run", token))
    /\ runPc' = "watch"
    /\ UNCHANGED runExit

\* Lines 232-238: change mode signal, the signal does not parse: Kill, return.
RunReactParseFails ==
    /\ runPc = "react"
    /\ changeMode = "signal"
    /\ ~signalParses
    /\ reactLog' = Append(reactLog, token)
    /\ lifeLog' = Append(lifeLog, Kill(token))
    /\ RunReturn("parse")
    /\ UNCHANGED <<otherVars, issued, recovered, hookVars, future, closed, disk, prerunVars, token,
                   updatedToken, attempts, backoff, passStops, renewing, renewErr,
                   derives, clientLog, updaterLog, renewFails>>

\* Lines 240-244: change mode signal, Signal returns an error: Kill, return.
RunReactSignalFails ==
    /\ runPc = "react"
    /\ changeMode = "signal"
    /\ signalParses
    /\ reactLog' = Append(reactLog, token)
    /\ lifeLog' = lifeLog \o <<LifeCall("signal", FALSE, token), Kill(token)>>
    /\ RunReturn("signal")
    /\ UNCHANGED <<otherVars, issued, recovered, hookVars, future, closed, disk, prerunVars, token,
                   updatedToken, attempts, backoff, passStops, renewing, renewErr,
                   derives, clientLog, updaterLog, renewFails>>

\* Lines 232-244 and 255-258: change mode signal, the signal is delivered.
RunReactSignal ==
    /\ runPc = "react"
    /\ changeMode = "signal"
    /\ signalParses
    /\ reactLog' = Append(reactLog, token)
    /\ lifeLog' = Append(lifeLog, LifeCall("signal", FALSE, token))
    /\ ReactDone
    /\ UNCHANGED <<otherVars, issued, recovered, hookVars, future, closed, disk, prerunVars, token,
                   attempts, backoff, passStops, renewing, renewErr, derives,
                   clientLog, renewFails>>

\* Lines 245-247 and 255-258: change mode restart: Restart with failure =
\* false.
RunReactRestart ==
    /\ runPc = "react"
    /\ changeMode = "restart"
    /\ reactLog' = Append(reactLog, token)
    /\ lifeLog' = Append(lifeLog, LifeCall("restart", FALSE, token))
    /\ ReactDone
    /\ UNCHANGED <<otherVars, issued, recovered, hookVars, future, closed, disk, prerunVars, token,
                   attempts, backoff, passStops, renewing, renewErr, derives,
                   clientLog, renewFails>>

\* Lines 248-258: change mode noop or any other value: an error is logged,
\* nothing is asked of the lifecycle; the block still ends with the updater.
RunReactDefault ==
    /\ runPc = "react"
    /\ changeMode \notin {"signal", "restart"}
    /\ reactLog' = Append(reactLog, token)
    /\ ReactDone
    /\ UNCHANGED <<otherVars, issued, recovered, hookVars, future, closed, disk, prerunVars, token,
                   attempts, backoff, passStops, renewing, renewErr, derives,
                   clientLog, lifeLog, renewFails>>

\* Lines 262-272: the select takes renewCh: the token is dropped, the
\* renewal stopped and the change mode is due unless it is noop.
RunRenewalFailed ==
    /\ runPc = "watch"
    /\ renewErr
    /\ token' = EmptyToken
    /\ stopRenewal
    /\ passStops' = passStops + 1
    /\ updatedToken' = RotationPending
    /\ renewFails' = renewFails + 1
    /\ runPc' = "top"
    /\ UNCHANGED <<otherVars, issued, recovered, hookVars, future, closed, disk, prerunVars, attempts, backoff,
                   runExit, derives, lifeLog, updaterLog, reactLog>>

\* Lines 273-275: the select takes h.ctx.Done(): stopRenewal, return.
RunWatchCancelled ==
    /\ runPc = "watch"
    /\ hctxDone
    /\ stopRenewal
    /\ passStops' = passStops + 1
    /\ RunReturn("cancelled")
    /\ UNCHANGED <<otherVars, issued, recovered, hookVars, future, closed, disk, prerunVars, token,
                   updatedToken, attempts, backoff, derives, lifeLog, updaterLog,
                   reactLog, renewFails>>

\* ------------------------------------------------------- Vault client
\* The renewal of the token fails: the client puts the error on the channel
\* RenewToken returned.
RenewalFails ==
    /\ runPc \in {"publish", "react", "watch"}
    /\ renewing # NoStream
    /\ ~renewErr
    /\ derives < MaxDerives
    /\ renewErr' = TRUE
    /\ UNCHANGED <<otherVars, hookVars, future, closed, disk, prerunVars, runVars,
                   renewing, ghostVars>>

\* ---------------------------------------------------- specifications
PrerunStep ==
    \/ PrerunWait
    \/ PrerunGateOpens
    \/ PrerunCtxDone
    \/ PrerunUpdate

RunStep ==
    \/ RunTopCancelled
    \/ RunTopClear
    \/ RunDeriveOk
    \/ RunDeriveServerSide
    \/ RunDeriveNonRecoverable
    \/ RunDeriveRecoverable
    \/ RunBackoffTimer
    \/ RunBackoffCancelled
    \/ RunWriteOk
    \/ RunWriteFails
    \/ RunRenewStarts
    \/ RunRenewStartFails
    \/ RunPublish
    \/ RunReactParseFails
    \/ RunReactSignalFails
    \/ RunReactSignal
    \/ RunReactRestart
    \/ RunReactDefault
    \/ RunRenewalFailed
    \/ RunWatchCancelled

Next ==
    \/ PrerunNotFirst
    \/ PrerunReadError
    \/ PrerunLaunch
    \/ PrerunStep
    \/ CallerCancel
    \/ Poststop
    \/ RunStep
    \/ RenewalFails

Spec == Init /\ [][Next]_vars

\* The goroutines are scheduled fairly: run and a Prerun in progress take
\* their next step when they have one.  Nothing obliges the caller to cancel
\* its ctx, the task runner to call Poststop or the renewal to fail.
\* One derivation against a server that keeps answering with recoverable
\* errors: the hook is started, run reaches deriveVaultToken and retries.
BackoffNext ==
    \/ PrerunLaunch
    \/ RunTopClear
    \/ RunDeriveRetry
    \/ RunBackoffTimer

BackoffSpec == Init /\ [][BackoffNext]_vars

FairSpec == Spec /\ WF_vars(RunStep) /\ WF_vars(PrerunStep)

\* ------------------------------------------------------ callers of the future
\* The token future on its own, with callers that make any call at any time.
NoToken == -1

\* What is kept of a channel handed out by Wait: whether the future was set
\* then, how many times the channel was closed, the token of the Set that
\* closed it.
Handle(f) ==
    [atSet |-> f.set,
     closes |-> IF f.set THEN 1 ELSE 0,
     by |-> IF f.set THEN f.token ELSE NoToken]

Waiting(f) == {f.waiting[i] : i \in 1..Len(f.waiting)}

\* f.Wait()
FWait ==
    /\ Len(handles) < MaxHandles
    /\ LET c == Len(handles) + 1
           w == FutureWait(future, closed, c)
       IN /\ future' = w.future
          /\ closed' = w.closed
    /\ callers' = [callers EXCEPT !.handles = Append(@, Handle(future))]
    /\ UNCHANGED <<script, hookVars, prerunVars, runVars, ghostVars,
                   disk, renewing, renewErr>>

\* f.Set(tok)
FSet ==
    \E tok \in Tokens :
        /\ LET s == FutureSet(future, closed, tok)
           IN /\ future' = s.future
              /\ closed' = s.closed
        /\ callers' =
              [callers EXCEPT
                  !.handles = [h \in 1..Len(handles) |->
                                  IF h \in Waiting(future)
                                  THEN [handles[h] EXCEPT !.closes = @ + 1, !.by = tok]
                                  ELSE handles[h]],
                  !.lastSet = tok]
        /\ UNCHANGED <<script, hookVars, prerunVars, runVars, ghostVars,
                       disk, renewing, renewErr>>

\* f.Clear()
FClear ==
    /\ future' = FutureClear(future)
    /\ callers' = [callers EXCEPT !.lastSet = EmptyToken]
    /\ UNCHANGED <<closed, script, hookVars, prerunVars, runVars,
                   ghostVars, disk, renewing, renewErr>>

\* f.Get()
FGet ==
    /\ callers' = [callers EXCEPT !.got = FutureGet(future)]
    /\ UNCHANGED <<future, closed, script, hookVars, prerunVars,
                   runVars, ghostVars, disk, renewing, renewErr>>

FutureNext ==
    \/ FWait
    \/ FSet
    \/ FClear
    \/ FGet

FutureSpec == Init /\ [][FutureNext]_vars

\* ------------------------------------------------------ script check
\* fmt.Sprintf("code=%d err=%v", code, err)
Sprintf(code, err) == <<"code=", code, " err=", err.text>>

\* simpleExec.Exec: returns whatever is specified.
SimpleExec(code, err) == ExecResult(Sprintf(code, err), code, err)

\* blockingScriptExec.Exec once the sleeping command has been killed.
BlockingExecKilled == ExecResult(<<>>, 1, ErrorsNew("signal: killed"))

ExitCodes == {0, 1, 2, 9000}
ExecErrors == {NoErr, ErrorsNew("test error")}
ExecResults ==
    {SimpleExec(c, e) : c \in ExitCodes, e \in ExecErrors} \cup {BlockingExecKilled}

HealthPassing == "passing"
HealthWarning == "warning"
HealthCritical == "critical"

\* A classification by the exit code alone.
ClassifyByCode(res) ==
    [status |-> IF res.code = 0 THEN HealthPassing
                ELSE IF res.code = 1 THEN HealthWarning
                ELSE HealthCritical,
     output |-> res.stdout]

\* Step 3 of the control loop: status and output of an Exec result.
Classify(res) ==
    IF ~res.err.isNil
    THEN [status |-> HealthCritical, output |-> Error(res.err)]
    ELSE [status |-> IF res.code = 0 THEN HealthPassing
                     ELSE IF res.code = 1 THEN HealthWarning
                     ELSE HealthCritical,
          output |-> res.stdout]

\* fakeHeartbeater.UpdateTTL: the update is handed over; it is kept with
\* the Exec result it reports and the signals fired when it was made.
UpdateTTL(res, output, status) ==
    [res |-> res, output |-> output, status |-> status,
     shutdown |-> scShutdown, cancelled |-> scCancelled]

\* A loop that goes back to waiting whatever the shutdown signal.
AfterReportWaits == "wait"

\* Step 5: the pass made with the shutdown signal fired is the last one.
AfterReport == IF scShutdown THEN "exited" ELSE "wait"

\* check.run(): the loop is started.
ScRun ==
    /\ scPc = "new"
    /\ script' = [script EXCEPT !.pc = "wait"]
    /\ UNCHANGED <<managerVars, callers>>

\* Step 1, the interval timer fires (at once the first time).
ScTimer ==
    /\ scPc = "wait"
    /\ ~scCancelled
    /\ Len(scLog) < MaxRuns
    /\ script' = [script EXCEPT !.pc = "exec"]
    /\ UNCHANGED <<managerVars, callers>>

\* Step 1, shutdown wins immediately.
ScShutdownWins ==
    /\ scPc = "wait"
    /\ ~scCancelled
    /\ scShutdown
    /\ script' = [script EXCEPT !.pc = "exec"]
    /\ UNCHANGED <<managerVars, callers>>

\* Step 2: the script returns, by itself or killed at the deadline.
ScExecReturns ==
    /\ scPc = "exec"
    /\ ~scCancelled
    /\ \E res \in ExecResults :
          script' = [script EXCEPT !.result = res, !.pc = "report"]
    /\ UNCHANGED <<managerVars, callers>>

\* Step 2: cancellation of the outer context aborts the in-flight script.
ScExecAborted ==
    /\ scPc = "exec"
    /\ scCancelled
    /\ script' = [script EXCEPT !.result = BlockingExecKilled, !.pc = "exited"]
    /\ UNCHANGED <<managerVars, callers>>

\* Steps 3 to 5: classify, call update_ttl, leave on shutdown.
ScReport ==
    /\ scPc = "report"
    /\ ~scCancelled
    /\ LET c == Classify(scResult)
       IN script' = [script EXCEPT
                        !.log = Append(@, UpdateTTL(scResult, c.output, c.status)),
                        !.pc = AfterReport]
    /\ UNCHANGED <<managerVars, callers>>

\* cancel() stops the loop immediately.
ScStopped ==
    /\ scPc \in {"wait", "report"}
    /\ scCancelled
    /\ script' = [script EXCEPT !.pc = "exited"]
    /\ UNCHANGED <<managerVars, callers>>

\* The shared shutdown signal fires.
ScShutdown ==
    /\ ~scShutdown
    /\ script' = [script EXCEPT !.shutdown = TRUE]
    /\ UNCHANGED <<managerVars, callers>>

\* handle.cancel()
ScCancel ==
    /\ scPc # "new"
    /\ ~scCancelled
    /\ script' = [script EXCEPT !.cancelled = TRUE]
    /\ UNCHANGED <<managerVars, callers>>

ScStep ==
    \/ ScTimer
    \/ ScShutdownWins
    \/ ScExecReturns
    \/ ScExecAborted
    \/ ScReport
    \/ ScStopped

ScriptNext ==
    \/ ScRun
    \/ ScStep
    \/ ScShutdown
    \/ ScCancel

ScriptSpec == Init /\ [][ScriptNext]_vars

\* Exec returns (the deadline kills the script) and UpdateTTL returns.
ScriptFairSpec == ScriptSpec /\ WF_vars(ScStep)

\* ------------------------------------------------------ observations
\* Successful DeriveToken calls so far.
DeriveSuccesses ==
    Cardinality({i \in 1..Len(clientLog) :
                    clientLog[i].op = "derive" /\ clientLog[i].ok})

\* Tokens the manager has had in hand: the recovered one and the derived.
TokensObtained ==
    (IF recovered # EmptyToken THEN 1 ELSE 0) + DeriveSuccesses

\* Signal and Restart calls made on the lifecycle.
TaskReactions ==
    {i \in 1..Len(lifeLog) : lifeLog[i].op \in {"signal", "restart"}}

\* Kill calls made on the lifecycle.
Kills == {i \in 1..Len(lifeLog) : lifeLog[i].op = "kill"}

\* Updater calls made from run.
RunUpdates == {i \in 1..Len(updaterLog) : updaterLog[i].by = "run"}

\* The change mode has not been applied in any way.
NoReaction == reactLog = <<>> /\ TaskReactions = {} /\ RunUpdates = {}

\* The ways run returns after a fatal error.
FatalExits == {"server", "nonrecoverable", "write", "parse", "signal"}

\* Prerun has returned nil.
ReturnedNil == prerunRet.how \in {"notfirst", "cancelled", "updated"}

\* ---------------------------------------------------------------- C1
\* C1: a Prerun invocation that returns nil through the gate (the future's
\* channel fired, its ctx was not the case taken) has handed the updater a
\* non-empty token before returning.
C1_GateReadsToken ==
    prerunRet.how = "updated" => prerunRet.tok # EmptyToken

\* C1 for every invocation, the second and later ones included: a Prerun
\* that returns nil while its ctx is not cancelled returns after the
\* updater has been handed a non-empty token.
C1_UpdatedBeforeReturn ==
    (ReturnedNil /\ ~prerunRet.ctxDone) => prerunRet.updated

\* ---------------------------------------------------------------- C2
\* What C2 takes for granted of the environment: no cancellation, no fatal
\* derivation error, no write failure, no failure to start the renewal.
C2_Disturbed ==
    \/ hctxDone
    \/ callCtxDone
    \/ runExit \in FatalExits
    \/ \E i \in 1..Len(clientLog) :
          clientLog[i].op = "renew" /\ ~clientLog[i].ok

\* C2: once the first Prerun has launched the manager, and DeriveToken
\* succeeds after finitely many recoverable errors, that Prerun eventually
\* returns having handed the updater a non-empty token.
C2_GateRelease ==
    (prerunPc = "launched")
        ~> (C2_Disturbed
            \/ (prerunRet.call = 1 /\ prerunRet.how = "updated"
                /\ prerunRet.tok # EmptyToken))

\* ---------------------------------------------------------------- C3
\* C3 as claimed: while DeriveToken has succeeded at most once, the change
\* mode has not been applied, whatever token the manager started with.
C3_NoReactOneDerivation == DeriveSuccesses <= 1 => NoReaction

\* C3 as amended: while the manager has had at most one token in hand (the
\* recovered token counting as the first), the change mode has not been
\* applied.
C3_NoReactOnFirst == TokensObtained <= 1 => NoReaction

\* C3: the first derived token is published and watched with no reaction.
C3_Witness ==
    /\ recovered = EmptyToken
    /\ DeriveSuccesses = 1
    /\ runPc = "watch"
    /\ future.set
    /\ token # EmptyToken

\* ---------------------------------------------------------------- C4
\* The token of the last successful DeriveToken call, EmptyToken when none.
LastDerived ==
    LET ok == {i \in 1..Len(clientLog) :
                  clientLog[i].op = "derive" /\ clientLog[i].ok}
    IN IF ok = {} THEN EmptyToken
       ELSE clientLog[CHOOSE i \in ok : \A j \in ok : j <= i].tok

\* The token of the last updater call made from run.
LastRunUpdate ==
    updaterLog[CHOOSE i \in RunUpdates : \A j \in RunUpdates : j <= i].tok

\* The change mode is due: a renewal failure has not been answered yet.
ReactionDue == IF updatedToken /\ runPc # "exited" THEN 1 ELSE 0

\* With change mode signal or restart, the reactions and the renewal
\* failures go one to one: every failure is answered by one reaction, made
\* for the token derived after it, when the renewal of that token has
\* started; between two failures there is no second reaction.
C4_Counts ==
    changeMode \in {"signal", "restart"} =>
        /\ runPc # "exited" => Len(reactLog) + ReactionDue = renewFails
        /\ Len(reactLog) <= renewFails
        /\ Cardinality(TaskReactions) <= Len(reactLog)
        /\ (runPc = "watch" /\ renewFails > 0) =>
              /\ Cardinality(TaskReactions) = renewFails
              /\ Cardinality(RunUpdates) = renewFails
              /\ reactLog[Len(reactLog)] = LastDerived
              /\ lifeLog[Len(lifeLog)].tok = LastDerived
              /\ LastRunUpdate = LastDerived
              /\ renewing = LastDerived

\* Reactions are made one at a time, by run, at the change-mode block.
C4_OneAtATime ==
    Len(reactLog') # Len(reactLog) =>
        /\ runPc = "react"
        /\ updatedToken
        /\ reactLog' = Append(reactLog, token)
        /\ renewing = token

\* C4: with change mode signal or restart, every renewal-stream failure
\* followed by a successful derivation whose renewal starts is answered by
\* exactly one reaction, for the newly derived token, and by no other until
\* the next failure; reactions are made one at a time by the run loop.
C4_ReactOnRotation == []C4_Counts /\ [][C4_OneAtATime]_vars

\* C4: a rotated token has been reacted on once and is being watched.
C4_Witness ==
    /\ changeMode \in {"signal", "restart"}
    /\ runPc = "watch"
    /\ renewFails = 1
    /\ Len(reactLog) = 1
    /\ reactLog[1] = LastDerived
    /\ LastDerived # EmptyToken
    /\ Cardinality(TaskReactions) = 1

\* ---------------------------------------------------------------- C5
\* The first renewal of the manager started.
FirstRenewStarted ==
    \E i \in 1..Len(clientLog) :
        /\ clientLog[i].op = "renew" /\ clientLog[i].ok
        /\ \A j \in 1..(i - 1) : clientLog[j].op # "renew"

\* C5: with a non-empty token T recovered from the file (and h.ctx not
\* cancelled), the first call on the client is RenewToken(T); until then
\* the file still holds T; and when that renewal has started, the Prerun
\* that passes the gate hands T to the updater.
C5_Recovery ==
    (recovered # EmptyToken /\ ~hctxDone) =>
        /\ clientLog # <<>> =>
              clientLog[1].op = "renew" /\ clientLog[1].tok = recovered
        /\ clientLog = <<>> => disk = recovered
        /\ (FirstRenewStarted /\ prerunRet.call = 1
            /\ prerunRet.how = "updated") => prerunRet.tok = recovered

\* ---------------------------------------------------------------- C6
\* C6 as claimed: once a derived token has been written (no write has
\* failed), the token file holds the token of the future, the one Get
\* returns.
C6_DiskIsFutureToken ==
    (DeriveSuccesses >= 1 /\ runPc # "write" /\ runExit # "write")
        => disk = FutureGet(future)

\* C6 as amended: after the first successful derivation, whenever the
\* future is set, the token file holds the token of the future.
C6_DiskIsPublishedToken ==
    (DeriveSuccesses >= 1 /\ future.set) => disk = FutureGet(future)

\* C6: a derived token is on disk and in the future.
C6_Witness ==
    /\ DeriveSuccesses >= 1
    /\ future.set
    /\ FutureGet(future) # EmptyToken
    /\ disk = FutureGet(future)
    /\ renewFails >= 1

\* ---------------------------------------------------------------- C7
\* The last call on the client stopped the renewal of tok.
LastCallStopped(log, tok) ==
    /\ log # <<>>
    /\ log[Len(log)] = ClientCall("stop", tok, TRUE)

\* A cancellation or a renewal failure seen while the client renews a token:
\* the step makes exactly one more client call, StopRenewToken of that token.
C7_StopOnLeave ==
    (runPc = "watch" /\ runPc' # "watch") =>
        /\ renewing # NoStream
        /\ clientLog' = Append(clientLog, ClientCall("stop", renewing, TRUE))
        /\ renewing' = NoStream

\* No renewal is running while run derives, waits, writes or starts a
\* renewal, nor after it has returned on cancellation.
C7_NoStreamOutside ==
    /\ runPc \in {"top", "derive", "backoff", "write", "renew"} =>
          renewing = NoStream
    /\ runExit \in {"cancelled", "backoffcancel"} => renewing = NoStream

\* C7: when run sees h.ctx done or a renewal error while the client renews
\* token T, StopRenewToken(T) is called before run returns or derives again.
C7_StopBeforeLeaving == []C7_NoStreamOutside /\ [][C7_StopOnLeave]_vars

\* C7: run has returned on cancellation after stopping the renewal of a
\* token whose renewal it had started.
C7_Witness ==
    /\ runExit = "cancelled"
    /\ Len(clientLog) >= 2
    /\ clientLog[Len(clientLog) - 1].op = "renew"
    /\ clientLog[Len(clientLog) - 1].ok
    /\ clientLog[Len(clientLog) - 1].tok # EmptyToken
    /\ LastCallStopped(clientLog, clientLog[Len(clientLog) - 1].tok)

\* ---------------------------------------------------------------- C8
\* After the cancellation no back-off wait runs to its end.
C8_NoBackoffCompletes ==
    (hctxDone /\ runPc = "backoff") => runPc' # "derive"

C9_PoststopReleasesGate ==
    (hctxDone /\ prerunPc = "select") ~> (prerunPc = "idle")

\* --------------------------------------------------------------- C10
\* After a fatal error: one Kill, with failure = true, as the last call on
\* the lifecycle; after a fatal derivation error the future is unset.
C10_KilledOnce ==
    /\ Cardinality(Kills) = (IF runExit \in FatalExits THEN 1 ELSE 0)
    /\ runExit \in FatalExits =>
          lifeLog[Len(lifeLog)].op = "kill" /\ lifeLog[Len(lifeLog)].failure
    /\ runExit \in {"server", "nonrecoverable"} => ~future.set

\* Once run has returned nothing more is asked of the client or of the
\* lifecycle and the file is not written; the step of a fatal derivation
\* error does not write the file either.
C10_NothingAfter ==
    /\ runPc = "exited" =>
          UNCHANGED <<clientLog, lifeLog, disk, derives, runPc, runExit>>
    /\ runExit' \in {"server", "nonrecoverable"} => disk' = disk

\* C10: each fatal error (server-side or non-recoverable derivation error,
\* write failure, signal parse or delivery failure) is followed by exactly
\* one Kill with failure = true and by the return of run, with no further
\* DeriveToken, RenewToken or file write; a fatal derivation error writes no
\* file and leaves the future unset.
C10_FatalKills == []C10_KilledOnce /\ [][C10_NothingAfter]_vars

\* C10: run has returned after a signal that could not be delivered.
C10_Witness ==
    /\ runExit = "signal"
    /\ Cardinality(Kills) = 1
    /\ updaterLog # <<>>


\* ------------------------------------------------------ C11
\* The delays of one derivation, in the terms of the schedule: 5 s, four
\* times longer at each attempt, 3 min at most.
RECURSIVE ScheduleSeconds(_)
ScheduleSeconds(n) ==
    IF n = 0 THEN 5
    ELSE LET next == 4 * ScheduleSeconds(n - 1)
         IN IF next > 180 THEN 180 ELSE next

Schedule(n) == Mul64(FromNat(ScheduleSeconds(n)), Second)

\* C11: the delay scheduled before the next retry is at most 3 minutes
\* whatever the attempt index, and it is exactly 5 seconds for index 0.
C11_BackoffClamped ==
    runPc = "backoff" =>
        /\ ~Gt64(backoff, vaultBackoffLimit)
        /\ (attempts = 1 => backoff = Schedule(0))

\* The limit has replaced a longer delay.
C11_Witness ==
    /\ runPc = "backoff"
    /\ attempts = 4
    /\ backoff = vaultBackoffLimit
    /\ Gt64(BackoffNoLimit(attempts - 1), vaultBackoffLimit)



\* ------------------------------------------------------ C12
\* C12: whatever Exec returned, the runner reports critical with the error
\* text as output when err is not nil, whatever the exit code; otherwise
\* it reports the raw stdout as output, with passing for exit code 0,
\* warning for exit code 1 and critical for every other exit code.
C12_Classification ==
    \A i \in 1..Len(scLog) :
        LET u == scLog[i]
            stdout == u.res.stdout
            code == u.res.code
            err == u.res.err
        IN IF err # NoErr
           THEN u.status = "critical" /\ u.output = err.text
           ELSE /\ u.output = stdout
                /\ code = 0 => u.status = "passing"
                /\ code = 1 => u.status = "warning"
                /\ code \notin {0, 1} => u.status = "critical"

\* An exit code of a passing or warning check reported critical for its
\* error, after a check without error.
C12_Witness ==
    /\ Len(scLog) = 2
    /\ scLog[1].res = SimpleExec(9000, NoErr)
    /\ scLog[2].res.code \in {0, 1}
    /\ scLog[2].res.err # NoErr
    /\ scLog[2].status = "critical"

\* ------------------------------------------------------ C13
UpdatesAfterShutdown == {i \in 1..Len(scLog) : scLog[i].shutdown}
UpdatesAfterCancel == {i \in 1..Len(scLog) : scLog[i].cancelled}

\* What holds in every state: no UpdateTTL call is made after cancel();
\* a loop that ended without cancel() ended on shutdown, its last pass
\* being the only one reported after the signal; a script in flight when
\* cancel() is seen is aborted.
C13_Drained ==
    /\ UpdatesAfterCancel = {}
    /\ Cardinality(UpdatesAfterShutdown) <= 1
    /\ (scPc = "exited" /\ ~scCancelled) =>
          /\ scShutdown
          /\ UpdatesAfterShutdown = {Len(scLog)}

C13_Aborts ==
    (scPc = "exec" /\ scCancelled) =>
        (scPc' # "exec" => scPc' = "exited" /\ scLog' = scLog)

\* C13: once shutdown fires the runner makes one final execute-and-report
\* pass and wait() completes; once cancel() is called the script in flight
\* is aborted, wait() completes and no UpdateTTL call follows the cancel.
C13_Termination ==
    /\ []C13_Drained
    /\ [][C13_Aborts]_vars
    /\ (scPc # "new" /\ scShutdown) ~> (scPc = "exited")
    /\ scCancelled ~> (scPc = "exited")

\* The loop has ended on shutdown with its final pass, after an ordinary
\* pass.
C13_Witness ==
    /\ scPc = "exited"
    /\ ~scCancelled
    /\ Len(scLog) = 2
    /\ UpdatesAfterShutdown = {2}



\* ------------------------------------------------------ C14
\* RenewToken(tok) returning without error is the last call made on the
\* client: no derivation and no StopRenewToken has followed it.
RenewalStartedFor(tok) ==
    /\ clientLog # <<>>
    /\ clientLog[Len(clientLog)] = ClientCall("renew", tok, TRUE)

Published == ~future.set /\ future'.set
NewLifeCalls == {lifeLog'[i] : i \in (Len(lifeLog) + 1)..Len(lifeLog')}

C14_Step ==
    /\ Published => RenewalStartedFor(future'.token)
    /\ \A c \in NewLifeCalls :
          c.op \in {"signal", "restart"} => RenewalStartedFor(c.tok)
    /\ reactLog' # reactLog => RenewalStartedFor(reactLog'[Len(reactLog')])

\* C14: a token is published to the future, and the change mode is applied
\* for it, only when RenewToken has returned without error for that token
\* in the same loop pass; a token whose renewal did not start is neither
\* published nor reacted on.
C14_RenewableBeforeReact == [][C14_Step]_vars

\* The change mode has been applied for a token whose renewal started, after
\* a token whose renewal did not start.
C14_Witness ==
    /\ runPc = "watch"
    /\ future.set
    /\ \E i \in 1..Len(clientLog) :
          clientLog[i].op = "renew" /\ ~clientLog[i].ok
    /\ \E j \in 1..Len(lifeLog) : lifeLog[j].op \in {"signal", "restart"}



\* ------------------------------------------------------ C15
\* The last RenewToken call returned an error and nothing was asked of the
\* client since.
StartJustFailed ==
    /\ clientLog # <<>>
    /\ clientLog[Len(clientLog)].op = "renew"
    /\ ~clientLog[Len(clientLog)].ok

\* The renewal that has just started is the first to start since a
\* RenewToken call returned an error.
StartedAfterFailure ==
    /\ RenewalStartedFor(token)
    /\ \E i \in 1..(Len(clientLog) - 1) :
          /\ clientLog[i].op = "renew"
          /\ ~clientLog[i].ok
          /\ \A j \in (i + 1)..(Len(clientLog) - 1) : clientLog[j].op = "derive"

\* C15: when RenewToken returns an error the token is discarded, rotation
\* pending is set to (change mode is not noop) and the token is derived
\* again, so that with change mode signal or restart the next token whose
\* renewal starts gets the change-mode reaction.
C15_StartFailureIsRotation ==
    /\ (runPc = "top" /\ StartJustFailed) =>
          /\ token = EmptyToken
          /\ updatedToken = (changeMode # "noop")
    /\ (runPc = "watch" /\ StartedAfterFailure /\ changeMode \in {"signal", "restart"}) =>
          /\ reactLog # <<>>
          /\ reactLog[Len(reactLog)] = token



\* ------------------------------------------------------ C16
\* C16: at every attempt index reached in one derivation the delay, as the
\* 64-bit signed arithmetic yields it, is min(5 s * 2^(2n), 3 min): never
\* below 5 seconds and never shorter than the delay before it.
C16_BackoffSchedule ==
    runPc = "backoff" =>
        /\ backoff = Schedule(attempts - 1)
        /\ ~Gt64(vaultBackoffBaseline, backoff)
        /\ attempts > 1 => ~Gt64(Backoff(attempts - 2), backoff)



\* ------------------------------------------------------ C17
Pending == {h \in 1..Len(handles) : h \notin closed}
SetCalledWith(tok) == ~future.set /\ future'.set /\ future'.token = tok

C17_State ==
    /\ \A h \in 1..Len(handles) :
          /\ handles[h].atSet => h \in closed
          /\ handles[h].closes <= 1
          /\ h \in closed <=> handles[h].closes = 1
    /\ Pending = Waiting(future)
    /\ future.set => Pending = {}

C17_Step ==
    /\ \A h \in Pending :
          h \in closed' <=> \E tok \in Tokens \ {EmptyToken} : SetCalledWith(tok)
    /\ closed \subseteq closed'
    /\ got' # got => got' = lastSet

\* C17: under any interleaving of Wait, Set, Clear and Get, a handle got
\* while the future is set is ready at once; a handle got while it is not
\* set becomes ready exactly at the next Set with a non-empty token; Set
\* releases every pending waiter and no handle is closed twice; Clear leaves
\* ready handles ready; Get returns the token of the last Set, or empty when
\* there was none or a Clear came after it.
C17_FutureSemantics == []C17_State /\ [][C17_Step]_vars



\* ------------------------------------------------------ C18
\* A rotation is complete: a renewal failed and run watches a renewal again.
Rotated == runPc = "watch" /\ renewFails > 0

\* The token run holds is the content of the file and of the future.
Adopted == disk = token /\ future.set /\ FutureGet(future) = token

\* C18 as claimed: with change mode noop or an unrecognized one a rotation
\* brings no Signal, no Restart and no updater call from run, and the new
\* token is written to disk and published.
C18_NoPropagation ==
    changeMode \notin {"signal", "restart"} =>
        /\ TaskReactions = {}
        /\ RunUpdates = {}
        /\ Rotated => Adopted

\* C18: with change mode noop a rotation brings no Signal, no Restart and no
\* updater call from run; with an unrecognized change mode it brings no
\* Signal and no Restart, and one updater call from run, with the new token;
\* in both cases the new token is written to disk and published.
C18_NoopDoesNotPropagate ==
    changeMode \notin {"signal", "restart"} =>
        /\ TaskReactions = {}
        /\ changeMode = "noop" => RunUpdates = {} /\ reactLog = <<>>
        /\ (changeMode # "noop" /\ Rotated) =>
              /\ Cardinality(RunUpdates) = renewFails
              /\ LastRunUpdate = token
        /\ Rotated => Adopted

\* A rotation is complete under change mode noop, with a new token.
C18_Witness ==
    /\ changeMode = "noop"
    /\ Rotated
    /\ token # EmptyToken
    /\ token # recovered
    /\ Adopted



\* ------------------------------------------------------ C19
C19_Step ==
    hctxDone =>
        /\ \A c \in NewLifeCalls : c.op \notin {"signal", "restart"}
        /\ disk' = disk
        /\ ~Published

\* C19: once Poststop has cancelled h.ctx, run asks no Signal and no Restart
\* of the lifecycle, writes no token to disk and publishes none, wherever
\* the cancellation finds it.
C19_QuietAfterPoststop == [][C19_Step]_vars



\* ------------------------------------------------------ C20
\* Every StopRenewToken call names a token for which RenewToken had returned
\* a channel.
C20_StopsStarted ==
    \A i \in 1..Len(clientLog) :
        clientLog[i].op = "stop" =>
            \E j \in 1..(i - 1) :
                clientLog[j] = ClientCall("renew", clientLog[i].tok, TRUE)

\* run has not returned with a renewal still going.
C20_StoppedOnReturn == runPc = "exited" => renewing = NoStream

\* A renewal starts only while no other is going.
C20_OneStream ==
    (renewing' # renewing /\ renewing' # NoStream) => renewing = NoStream

\* C20: no renewal stream is leaked: one renewal at most is going at any
\* time, StopRenewToken is only called with a token whose renewal was
\* started, and by whatever path run returns every renewal that was started
\* has been stopped.
C20_NoLeak ==
    /\ [](C20_StopsStarted /\ C20_StoppedOnReturn)
    /\ [][C20_OneStream]_vars


============================================================================
